---- MODULE Spec2Model ----
(***************************************************************************)
(* Jarvis: UDP device discovery (src/src/Device/Device.rs) and the command *)
(* dispatch runtime (src/src/main.rs).                                     *)
(*                                                                         *)
(* Byte buffers are sequences over 0..255.  Rust offsets are 0-based, so   *)
(* the byte at Rust offset i of a buffer is At(buffer, i).                 *)
(***************************************************************************)
EXTENDS Integers, Sequences, FiniteSets, TLC

VARIABLES
    \* ---- build profile ----
    overflow_checks,  \* TRUE: debug build (arithmetic overflow panics); FALSE: release (wraps)
    \* ---- codec harness (the #[test] functions of Device.rs) ----
    buffer,           \* the byte slice handed to the codec
    origin,           \* the slice the harness started from
    edit,             \* what the harness did to origin to obtain buffer
    vres,             \* result of the last validate_checksum(buffer), "none" before a call
    dres,             \* result of the last get_device_from_bytes(buffer), NoCall before a call
    \* ---- main and discovery (main.rs 100-116, Device.rs 41-79) ----
    mpc,              \* where the main thread is
    stack,            \* the active calls of retrieve_devices: each one's local `devices`
    ret,              \* the value the innermost finished call of retrieve_devices returned
    result,           \* what set_up_devices returned to main, NoCall before it returns
    recvLog,          \* every recv_from so far: [ok, n, data], in order
    calls,            \* how often main called set_up_devices and listen_to_commands
    messages,         \* the post_message / println! lines of main, in order
    current_time,     \* the time::now() that set_up_command_broadcast read, NoTime before
    set_up_command,   \* the frame set_up_command_broadcast built, <<>> before
    sockLog,          \* every connect, send and recv_from so far: [op, ok], in order
    \* ---- dispatch runtime (main.rs 39-98) ----
    io_execution,     \* the configured input sources: their execution_order, in order
    dpc,              \* where the thread that called listen_to_commands is
    lpc,              \* per source: "none" (no thread), "listen", "send" or "returned"
    held,             \* per source: the command its listener read and has not yet sent
    epc,              \* the executor thread: "none" (not spawned), "recv", "recv_failed",
                      \* "execute", or "panicked" (unwound)
    ecur,             \* the command the executor received and is executing
    chan,             \* the mpsc channel's queue
    senders,          \* live Sender handles of the channel
    pushed,           \* the commands whose send returned Ok, in the order of the sends
    executed,         \* the commands on which execute was called, in order
    produced,         \* how many commands the input sources have yielded
    errors,           \* how often each error message of the runtime was posted
    spawned,          \* the role of every thread::spawn so far, in order
    unsent            \* the commands whose send returned Err, in the order of the sends

codecVars == <<buffer, origin, edit, vres, dres>>
mainVars == <<mpc, stack, ret, result, recvLog, calls, messages, current_time,
              set_up_command, sockLog>>
dispVars == <<io_execution, dpc, lpc, held, epc, ecur, chan, senders, pushed, executed,
              produced, errors, spawned, unsent>>
vars == <<overflow_checks, codecVars, mainVars, dispVars>>

(***************************************************************************)
(* Bounds of the model.                                                    *)
(***************************************************************************)
MaxPad == 2          \* padding bytes the harness appends after a frame
MaxFlipOffset == 11  \* highest Rust offset at which the harness flips a bit
MaxRecv == 3         \* recv_from calls of one discovery
MaxSources == 2      \* configured input sources
MaxCommands == 3     \* commands the input sources yield
MaxErrors == 1       \* repetitions of one error message that are counted

(***************************************************************************)
(* Result values.                                                          *)
(***************************************************************************)
Ok(v) == [tag |-> "Ok", val |-> v]
Err(e) == [tag |-> "Err", val |-> e]
Panic == [tag |-> "Panic", val |-> "panic"]
NoCall == [tag |-> "NoCall", val |-> "none"]

At(b, i) == b[i + 1]

(***************************************************************************)
(* crc32::checksum_ieee: reflected CRC-32, polynomial 0xEDB88320, initial  *)
(* value and final xor 0xFFFFFFFF, byte-wise table driven.  A u32 is the   *)
(* pair <<high 16 bits, low 16 bits>>.                                     *)
(***************************************************************************)
RECURSIVE BitXor(_, _)
BitXor(a, b) ==
    IF a = 0 THEN b
    ELSE IF b = 0 THEN a
    ELSE (((a % 2) + (b % 2)) % 2) + 2 * BitXor(a \div 2, b \div 2)

Xor32(x, y) == <<BitXor(x[1], y[1]), BitXor(x[2], y[2])>>

\* x >> n for 0 <= n <= 16
Shr32(x, n) == <<x[1] \div (2 ^ n), (x[2] \div (2 ^ n)) + (x[1] % (2 ^ n)) * (2 ^ (16 - n))>>

RECURSIVE CrcShift(_, _)
CrcShift(c, n) ==
    IF n = 0 THEN c
    ELSE CrcShift(IF c[2] % 2 = 1 THEN Xor32(Shr32(c, 1), <<60856, 33568>>)
                  ELSE Shr32(c, 1), n - 1)

CrcTable == [i \in 0..255 |-> CrcShift(<<0, i>>, 8)]

CrcByte(c, byte) == Xor32(CrcTable[BitXor(c[2] % 256, byte)], Shr32(c, 8))

\* the register after bytes[lo..hi], left to right; the range is halved and each
\* half's register is bound as a value before the next half starts
RECURSIVE CrcUpdate(_, _, _, _)
CrcUpdate(c, bytes, lo, hi) ==
    IF lo > hi THEN c
    ELSE IF lo = hi THEN CrcByte(c, bytes[lo])
    ELSE LET mid == (lo + hi) \div 2
         IN  CHOOSE r \in { CrcUpdate(left, bytes, mid + 1, hi) :
                               left \in { CrcUpdate(c, bytes, lo, mid) } } : TRUE

get_checksum(bytes) ==
    Xor32(CrcUpdate(<<65535, 65535>>, bytes, 1, Len(bytes)), <<65535, 65535>>)

(***************************************************************************)
(* set_up_command_broadcast (Device.rs 100-125).  current_time is the tm   *)
(* that time::now() returned.                                              *)
(***************************************************************************)
RECURSIVE BitOr(_, _)
BitOr(a, b) ==
    IF a = 0 THEN b
    ELSE IF b = 0 THEN a
    ELSE (IF (a % 2) + (b % 2) > 0 THEN 1 ELSE 0) + 2 * BitOr(a \div 2, b \div 2)

Or32(x, y) == <<BitOr(x[1], y[1]), BitOr(x[2], y[2])>>

\* `x as u8` for a u32 x, and for a tm field
AsU8(x) == x[2] % 256

NoTime == [tm_hour |-> -1, tm_min |-> -1, tm_sec |-> -1]

set_up_command_broadcast(t) ==
    LET command_without_checksum ==
            <<165, 5, 0, 0, t.tm_hour % 256, t.tm_min % 256, t.tm_sec % 256>>
        checksum == get_checksum(command_without_checksum)
    IN  <<165, 9, 0, 0, t.tm_hour % 256, t.tm_min % 256, t.tm_sec % 256,
          AsU8(Shr32(Shr32(checksum, 16), 8)),
          AsU8(Shr32(checksum, 16)),
          AsU8(Shr32(checksum, 8)),
          AsU8(Or32(checksum, <<0, 255>>))>>

(***************************************************************************)
(* validate_checksum (Device.rs 131-150).  Three places can panic:         *)
(*   buffer[1] + 2  is u8 arithmetic: with overflow checks it panics above *)
(*                  255, without it wraps modulo 256;                      *)
(*   split_at(mid)  panics when mid > len;                                 *)
(*   len() - 4      is usize arithmetic: with overflow checks it panics    *)
(*                  below 0, without it wraps to 2^64 - 4 + len and the    *)
(*                  split_at that uses it panics.                          *)
(***************************************************************************)
\* lines 133-135: the two halves of the checksum-bearing span, unless a split panics
SplitPanics == [panic |-> TRUE, without_checksum |-> <<>>, trailer |-> <<>>]

SplitBuffer(b, oc) ==
    LET sum == At(b, 1) + 2
    IN  IF sum > 255 /\ oc THEN SplitPanics
        ELSE LET mid == sum % 256
             IN  IF mid > Len(b) THEN SplitPanics
                 ELSE LET z == SubSeq(b, 1, mid)
                      IN  IF Len(z) < 4 THEN SplitPanics
                          ELSE [panic |-> FALSE,
                                without_checksum |-> SubSeq(z, 1, Len(z) - 4),
                                trailer |-> SubSeq(z, Len(z) - 3, Len(z))]

\* lines 137-140: the trailer read as a big-endian u32
TrailerChecksum(t) == <<(t[1] * 256) + t[2], (t[3] * 256) + t[4]>>

\* a validate_checksum whose mismatch arm of line 145 answers Ok(())
validate_checksum_accepting(b, oc) ==
    IF Len(b) > 4
    THEN LET s == SplitBuffer(b, oc)
         IN  IF s.panic THEN "panic" ELSE "Ok"
    ELSE "mismatch"

\* a validate_checksum without the length guard's Err: short buffers pass
validate_checksum_short_ok(b, oc) ==
    IF Len(b) > 4
    THEN LET s == SplitBuffer(b, oc)
         IN  IF s.panic THEN "panic"
             ELSE IF TrailerChecksum(s.trailer) = get_checksum(s.without_checksum)
                  THEN "Ok" ELSE "mismatch"
    ELSE "Ok"

validate_checksum(b, oc) ==
    IF Len(b) > 4
    THEN LET s == SplitBuffer(b, oc)
         IN  IF s.panic THEN "panic"
             ELSE IF TrailerChecksum(s.trailer) = get_checksum(s.without_checksum)
                  THEN "Ok" ELSE "mismatch"
    ELSE "mismatch"

(***************************************************************************)
(* create_buffer_from_device (Device.rs 152-161).                          *)
(***************************************************************************)
\* a create_buffer_from_device that reads the id at offset 1 and reports Status::off
create_buffer_from_device_offset_1(b) ==
    IF Len(b) > 2
    THEN [some |-> TRUE, device |-> [device_id |-> At(b, 1), status |-> "off"]]
    ELSE [some |-> FALSE, device |-> [device_id |-> 0, status |-> "off"]]

create_buffer_from_device(b) ==
    IF Len(b) > 2
    THEN [some |-> TRUE, device |-> [device_id |-> At(b, 2), status |-> "on"]]
    ELSE [some |-> FALSE, device |-> [device_id |-> 0, status |-> "off"]]

(***************************************************************************)
(* get_device_from_bytes (Device.rs 81-98).                                *)
(***************************************************************************)
\* a get_device_from_bytes that validates the checksum before it looks at the header
get_device_from_bytes_checksum_first(b, oc) ==
    IF Len(b) = 0 THEN Err("empty_buffer")
    ELSE LET v == validate_checksum(b, oc)
         IN  IF v = "panic" THEN Panic
             ELSE IF v # "Ok" THEN Err("mismatch_checksum")
             ELSE IF At(b, 0) # 165 THEN Err("protocol_error")
             ELSE LET d == create_buffer_from_device(b)
                  IN  IF d.some THEN Ok(d.device)
                      ELSE Err("possible_corrupted_data")

get_device_from_bytes(b, oc) ==
    IF Len(b) = 0 THEN Err("empty_buffer")
    ELSE IF At(b, 0) = 165
         THEN LET v == validate_checksum(b, oc)
              IN  IF v = "panic" THEN Panic
                  ELSE IF v = "Ok"
                       THEN LET d == create_buffer_from_device(b)
                            IN  IF d.some THEN Ok(d.device)
                                ELSE Err("possible_corrupted_data")
                       ELSE Err("mismatch_checksum")
         ELSE Err("protocol_error")

(***************************************************************************)
(* Inputs of the codec harness.  MakeFrame builds a well-formed inbound    *)
(* frame [0xA5, length, payload.., crc(4)] with length + 2 = frame size.   *)
(***************************************************************************)
BE32(c) == <<c[1] \div 256, c[1] % 256, c[2] \div 256, c[2] % 256>>

MakeFrame(payload) ==
    LET pre == <<165, Len(payload) + 4>> \o payload
    IN  pre \o BE32(get_checksum(pre))

Zeros(n) == [i \in 1..n |-> 0]

TestFrame == <<165, 9, 15, 1, 0, 0, 0, 149, 28, 130, 203>>
\* a frame whose first 11 bytes are TestFrame with the length byte 9 + 16
NestedFrame == MakeFrame(SubSeq(TestFrame, 3, 11) \o Zeros(12))
\* the longest frame a length byte can declare inside a 256-byte buffer
Frame254 == MakeFrame(<<15>> \o Zeros(249))
\* a frame whose checksum ends in a zero byte
LowZeroFrame == MakeFrame(<<233>>)

CodecInputs ==
    { <<>>, <<0>>, <<165>>, <<165, 0>>, <<165, 9, 15>>, <<165, 2, 0, 0>>,
      TestFrame,
      TestFrame \o <<0, 0, 0, 0, 23>>,
      <<165, 9, 19, 1, 0, 0, 0, 149, 28, 130, 203>>,
      <<0, 9, 15, 1, 0, 0, 0, 149, 28, 130, 203>>,
      <<165, 9, 15, 1, 0, 0, 0, 0, 0, 0, 0>>,
      MakeFrame(<<15>>), MakeFrame(<<7, 1>>), LowZeroFrame, NestedFrame, Frame254,
      <<165, 0, 0, 0, 0>>, <<165, 1, 7, 0, 0, 0>>,
      <<165, 254, 0, 0, 0, 0>>, <<165, 255, 0, 0, 0, 0>>,
      <<165, 20, 1, 2, 3>>,
      <<1, 254, 0, 0, 0>>, <<164, 0, 0, 0, 0>>, <<37, 5, 15, 205, 58, 175, 77>> }

(***************************************************************************)
(* The codec harness: what test_validate_checksum and                      *)
(* test_get_device_from_bytes do with a slice (Device.rs 163-202).         *)
(***************************************************************************)
NoEdit == [kind |-> "none", offset |-> 0, bit |-> 0, count |-> 0]

FlipBitIn(b, off, k) ==
    LET v == At(b, off)
        w == IF (v \div (2 ^ k)) % 2 = 1 THEN v - 2 ^ k ELSE v + 2 ^ k
    IN  [b EXCEPT ![off + 1] = w]

InitCodec ==
    /\ buffer \in CodecInputs
    /\ origin = buffer
    /\ edit = NoEdit
    /\ vres = "none"
    /\ dres = NoCall

CallValidate ==
    /\ vres = "none"
    /\ vres' = validate_checksum(buffer, overflow_checks)
    /\ UNCHANGED <<overflow_checks, buffer, origin, edit, dres, mainVars, dispVars>>

CallDecode ==
    /\ dres = NoCall
    /\ dres' = get_device_from_bytes(buffer, overflow_checks)
    /\ UNCHANGED <<overflow_checks, buffer, origin, edit, vres, mainVars, dispVars>>

FlipBit ==
    /\ edit.kind = "none"
    /\ \E off \in 0..MaxFlipOffset, k \in 0..7 :
         /\ off < Len(origin)
         /\ buffer' = FlipBitIn(origin, off, k)
         /\ edit' = [kind |-> "flip", offset |-> off, bit |-> k, count |-> 0]
    /\ vres' = "none"
    /\ dres' = NoCall
    /\ UNCHANGED <<overflow_checks, origin, mainVars, dispVars>>

AppendPadding ==
    /\ edit.kind \in {"none", "pad"}
    /\ edit.count < MaxPad
    /\ \E p \in {0, 23, 165} :
         /\ buffer' = Append(buffer, p)
         /\ edit' = [kind |-> "pad", offset |-> 0, bit |-> 0, count |-> edit.count + 1]
    /\ vres' = "none"
    /\ dres' = NoCall
    /\ UNCHANGED <<overflow_checks, origin, mainVars, dispVars>>

IdleCodec ==
    /\ buffer = <<>>
    /\ origin = <<>>
    /\ edit = NoEdit
    /\ vres = "none"
    /\ dres = NoCall

IdleMain ==
    /\ mpc = "idle"
    /\ stack = <<>>
    /\ ret = NoCall
    /\ result = NoCall
    /\ recvLog = <<>>
    /\ calls = [set_up_devices |-> 0, listen_to_commands |-> 0]
    /\ messages = <<>>
    /\ current_time = NoTime
    /\ set_up_command = <<>>
    /\ sockLog = <<>>

IdleDispatch ==
    /\ io_execution = <<>>
    /\ dpc = "idle"
    /\ lpc = <<>>
    /\ held = <<>>
    /\ epc = "none"
    /\ ecur = 0
    /\ chan = <<>>
    /\ senders = 0
    /\ pushed = <<>>
    /\ executed = <<>>
    /\ produced = 0
    /\ errors = [listen |-> 0, send |-> 0, recv |-> 0]
    /\ spawned = <<>>
    /\ unsent = <<>>

NextCodec == CallValidate \/ CallDecode \/ FlipBit \/ AppendPadding

InitCodecSpec == overflow_checks \in BOOLEAN /\ InitCodec /\ IdleMain /\ IdleDispatch

SpecCodec == InitCodecSpec /\ [][NextCodec]_vars

(***************************************************************************)
(* The transport.  recv_from either fails or delivers one datagram into    *)
(* the zeroed 256-byte buffer of the call and reports its size; connect    *)
(* and send succeed or fail.                                               *)
(***************************************************************************)
BufferSize == 256

Datagrams ==
    { TestFrame,                                   \* device 15
      MakeFrame(<<7, 1>>),                         \* device 7
      SubSeq(LowZeroFrame, 1, 6),                  \* device 233, last byte not sent
      <<165, 9, 15, 1, 0, 0, 0, 0, 0, 0, 0>>,      \* wrong checksum
      <<0, 9, 15, 1, 0, 0, 0, 149, 28, 130, 203>>, \* wrong header
      <<>>,                                        \* empty datagram
      <<165>>,                                     \* header only
      Frame254 }                                   \* length byte 254

RecvOutcomes ==
    { [ok |-> FALSE, n |-> 0, data |-> <<>>] }
    \cup { [ok |-> TRUE, n |-> Len(d), data |-> d] : d \in Datagrams }

\* let mut buffer = [0; 256]; recv_from(&mut buffer) with datagram d
FillBuffer(d) ==
    [i \in 1..BufferSize |-> IF i <= Len(d) THEN d[i] ELSE 0]

(***************************************************************************)
(* main (main.rs 100-116) and set_up_devices (Device.rs 41-56).            *)
(***************************************************************************)
\* values of time::now(): midnight, an afternoon, and a leap second
Times ==
    { [tm_hour |-> 0, tm_min |-> 0, tm_sec |-> 0],
      [tm_hour |-> 13, tm_min |-> 37, tm_sec |-> 42],
      [tm_hour |-> 23, tm_min |-> 59, tm_sec |-> 60] }

SockOp(op, ok) == [op |-> op, ok |-> ok]

InitMain ==
    /\ mpc = "main"
    /\ stack = <<>>
    /\ ret = NoCall
    /\ result = NoCall
    /\ recvLog = <<>>
    /\ calls = [set_up_devices |-> 0, listen_to_commands |-> 0]
    /\ messages = <<>>
    /\ current_time = NoTime
    /\ set_up_command = <<>>
    /\ sockLog = <<>>

\* main.rs 101-105: the start-up messages, then Device::set_up_devices(&com_channel),
\* which begins with write_udp_socket.connect (Device.rs 42-45, 54)
MainSetUpDevices ==
    /\ mpc = "main"
    /\ calls' = [calls EXCEPT !.set_up_devices = @ + 1]
    /\ messages' = messages \o <<"Info:Starting JARVIS", "Info:Checking for devices">>
    /\ \E connected \in BOOLEAN :
         /\ sockLog' = Append(sockLog, SockOp("connect", connected))
         /\ IF connected
            THEN /\ mpc' = "send"
                 /\ result' = result
            ELSE /\ mpc' = "returned"
                 /\ result' = Err("could_not_send_setup_command")
    /\ UNCHANGED <<overflow_checks, codecVars, dispVars, stack, ret, recvLog, current_time,
                   set_up_command>>

\* a set_up_devices that goes on to retrieve_devices whatever send returned
SetUpDevicesSendUnchecked ==
    /\ mpc = "send"
    /\ \E now \in Times :
         /\ current_time' = now
         /\ set_up_command' = set_up_command_broadcast(now)
    /\ \E sent \in BOOLEAN :
         /\ sockLog' = Append(sockLog, SockOp("send", sent))
         /\ mpc' = "retrieve"
         /\ stack' = << <<>> >>
         /\ result' = result
    /\ UNCHANGED <<overflow_checks, codecVars, dispVars, ret, recvLog, calls, messages>>

\* Device.rs 47-52: set_up_command_broadcast(), then
\* write_udp_socket.send(&set_up_command)
SetUpDevicesSend ==
    /\ mpc = "send"
    /\ \E now \in Times :
         /\ current_time' = now
         /\ set_up_command' = set_up_command_broadcast(now)
    /\ \E sent \in BOOLEAN :
         /\ sockLog' = Append(sockLog, SockOp("send", sent))
         /\ IF sent
            THEN /\ mpc' = "retrieve"
                 /\ stack' = << <<>> >>
                 /\ result' = result
            ELSE /\ mpc' = "returned"
                 /\ stack' = stack
                 /\ result' = Err("could_not_setup_devices")
    /\ UNCHANGED <<overflow_checks, codecVars, dispVars, ret, recvLog, calls, messages>>

(***************************************************************************)
(* retrieve_devices (Device.rs 58-79).  The innermost call is the last     *)
(* element of stack.  RetrieveDevicesRecv is lines 59-66 and 75-77 of the  *)
(* innermost call: on a decoded device it pushes the device and calls      *)
(* itself (line 67); otherwise it returns an error, or the decode panics   *)
(* and the main thread unwinds.  RetrieveDevicesReturn is lines 67-73 of   *)
(* the caller, or the return to set_up_devices (line 50).                  *)
(***************************************************************************)
\* a retrieve_devices that answers a failed receive or decode with Ok(devices)
RetrieveDevicesRecvOkOnFailure ==
    /\ mpc = "retrieve"
    /\ Len(recvLog) < MaxRecv
    /\ \E o \in RecvOutcomes :
         /\ recvLog' = Append(recvLog, o)
         /\ sockLog' = Append(sockLog, SockOp("recv_from", o.ok))
         /\ LET r == IF o.ok THEN get_device_from_bytes(FillBuffer(o.data), overflow_checks)
                     ELSE Err("could_not_recieve_data")
            IN  IF r.tag = "Ok"
                THEN /\ stack' = [stack EXCEPT ![Len(stack)] = Append(@, r.val)]
                                 \o << <<>> >>
                     /\ ret' = ret
                     /\ mpc' = "retrieve"
                ELSE IF r.tag = "Err"
                THEN /\ ret' = Ok(stack[Len(stack)])
                     /\ stack' = SubSeq(stack, 1, Len(stack) - 1)
                     /\ mpc' = "return"
                ELSE /\ ret' = ret
                     /\ stack' = stack
                     /\ mpc' = "panicked"
    /\ UNCHANGED <<overflow_checks, codecVars, dispVars, result, calls, messages,
                   current_time, set_up_command>>

RetrieveDevicesRecv ==
    /\ mpc = "retrieve"
    /\ Len(recvLog) < MaxRecv
    /\ \E o \in RecvOutcomes :
         /\ recvLog' = Append(recvLog, o)
         /\ sockLog' = Append(sockLog, SockOp("recv_from", o.ok))
         /\ IF ~o.ok
            THEN /\ ret' = Err("could_not_recieve_device_packet")
                 /\ stack' = SubSeq(stack, 1, Len(stack) - 1)
                 /\ mpc' = "return"
            ELSE LET r == get_device_from_bytes(FillBuffer(o.data), overflow_checks)
                 IN  IF r.tag = "Ok"
                     THEN /\ stack' = [stack EXCEPT ![Len(stack)] = Append(@, r.val)]
                                      \o << <<>> >>
                          /\ ret' = ret
                          /\ mpc' = "retrieve"
                     ELSE IF r.tag = "Err"
                     THEN /\ ret' = Err("could_not_unserialize_device_packet")
                          /\ stack' = SubSeq(stack, 1, Len(stack) - 1)
                          /\ mpc' = "return"
                     ELSE /\ ret' = ret
                          /\ stack' = stack
                          /\ mpc' = "panicked"
    /\ UNCHANGED <<overflow_checks, codecVars, dispVars, result, calls, messages,
                   current_time, set_up_command>>

RetrieveDevicesReturn ==
    /\ mpc = "return"
    /\ IF stack = <<>>
       THEN /\ result' = ret
            /\ mpc' = "returned"
            /\ UNCHANGED <<stack, ret>>
       ELSE LET devices == stack[Len(stack)]
            IN  /\ ret' = IF ret.tag = "Ok" THEN Ok(devices \o ret.val) ELSE Ok(devices)
                /\ stack' = SubSeq(stack, 1, Len(stack) - 1)
                /\ UNCHANGED <<result, mpc>>
    /\ UNCHANGED <<overflow_checks, codecVars, dispVars, recvLog, calls, messages,
                   current_time, set_up_command, sockLog>>

\* a main whose Err arm posts the message and returns without the runtime
MainMatchErrReturns ==
    /\ mpc = "returned"
    /\ messages' = Append(messages, IF result.tag = "Ok" THEN "Set up devices"
                                    ELSE "Error:JARVIS COULD NOT START")
    /\ calls' = IF result.tag = "Ok" THEN [calls EXCEPT !.listen_to_commands = @ + 1]
                ELSE calls
    /\ mpc' = IF result.tag = "Ok" THEN "listen_to_commands" ELSE "exit"
    /\ UNCHANGED <<overflow_checks, codecVars, dispVars, stack, ret, result, recvLog,
                   current_time, set_up_command, sockLog>>

\* main.rs 105-114: both arms call listen_to_commands
MainMatch ==
    /\ mpc = "returned"
    /\ messages' = Append(messages, IF result.tag = "Ok" THEN "Set up devices"
                                    ELSE "Error:JARVIS COULD NOT START")
    /\ calls' = [calls EXCEPT !.listen_to_commands = @ + 1]
    /\ mpc' = "listen_to_commands"
    /\ UNCHANGED <<overflow_checks, codecVars, dispVars, stack, ret, result, recvLog,
                   current_time, set_up_command, sockLog>>

Next ==
    \/ MainSetUpDevices
    \/ SetUpDevicesSend
    \/ RetrieveDevicesRecv
    \/ RetrieveDevicesReturn
    \/ MainMatch

Init == overflow_checks \in BOOLEAN /\ IdleCodec /\ InitMain /\ IdleDispatch

Spec == Init /\ [][Next]_vars

(***************************************************************************)
(* listen_to_commands (main.rs 39-98).  The source list is the vec of line *)
(* 45; the runtime is modelled for every list of up to MaxSources entries. *)
(* A command is the number of the read that yielded it.  The channel is    *)
(* std::sync::mpsc: send appends while the Receiver lives, recv takes the  *)
(* oldest command, blocks while the queue is empty and a Sender lives, and *)
(* fails when the queue is empty and no Sender lives.                      *)
(***************************************************************************)
RECURSIVE SeqsUpTo(_, _)
SeqsUpTo(S, n) ==
    IF n = 0 THEN { <<>> }
    ELSE SeqsUpTo(S, n - 1)
         \cup { Append(q, x) : q \in { r \in SeqsUpTo(S, n - 1) : Len(r) = n - 1 }, x \in S }

Sources == SeqsUpTo({"sync", "async"}, MaxSources)

Listeners == { i \in 1..Len(io_execution) : lpc[i] # "none" }

\* the state in which main calls listen_to_commands (main.rs 108, 112)
InitDispatch ==
    /\ io_execution \in Sources
    /\ dpc = "entry"
    /\ lpc = [i \in 1..Len(io_execution) |-> "none"]
    /\ held = [i \in 1..Len(io_execution) |-> 0]
    /\ epc = "none"
    /\ ecur = 0
    /\ chan = <<>>
    /\ senders = 0
    /\ pushed = <<>>
    /\ executed = <<>>
    /\ produced = 0
    /\ errors = [listen |-> 0, send |-> 0, recv |-> 0]
    /\ spawned = <<>>
    /\ unsent = <<>>

AsyncSources == { i \in 1..Len(io_execution) : io_execution[i] = "async" }

\* a listen_to_commands that spawns a listener thread for every source
ListenToCommandsSpawnListenersForAll ==
    /\ dpc = "entry"
    /\ lpc' = [i \in 1..Len(io_execution) |-> "listen"]
    /\ senders' = 1 + Len(io_execution)
    /\ spawned' = spawned \o [k \in 1..Len(io_execution) |-> "listener"]
    /\ dpc' = "spawn_executor"
    /\ UNCHANGED <<overflow_checks, codecVars, mainVars, unsent, io_execution, held, epc,
                   ecur, chan, pushed, executed, produced, errors>>

\* main.rs 44-71: the channel (one Sender, channel.0), and one thread::spawn per
\* async source, each thread owning a clone of the Sender; `_ => None` for the rest
ListenToCommandsSpawnListeners ==
    /\ dpc = "entry"
    /\ lpc' = [i \in 1..Len(io_execution) |->
                 IF io_execution[i] = "async" THEN "listen" ELSE "none"]
    /\ senders' = 1 + Cardinality(AsyncSources)
    /\ spawned' = spawned \o [k \in 1..Cardinality(AsyncSources) |-> "listener"]
    /\ dpc' = "spawn_executor"
    /\ UNCHANGED <<overflow_checks, codecVars, mainVars, unsent, io_execution, held, epc,
                   ecur, chan, pushed, executed, produced, errors>>

\* main.rs 73-86: the executor thread; its closure owns `channel`, both ends
ListenToCommandsSpawnExecutor ==
    /\ dpc = "spawn_executor"
    /\ epc' = "recv"
    /\ spawned' = Append(spawned, "executor")
    /\ dpc' = "join_listeners"
    /\ UNCHANGED <<overflow_checks, codecVars, mainVars, unsent, io_execution, lpc, held, ecur,
                   chan, senders, pushed, executed, produced, errors>>

\* main.rs 88-96: join every listener thread's handle
ListenToCommandsJoinListeners ==
    /\ dpc = "join_listeners"
    /\ \A i \in Listeners : lpc[i] = "returned"
    /\ dpc' = "join_executor"
    /\ UNCHANGED <<overflow_checks, codecVars, mainVars, spawned, unsent, io_execution, lpc,
                   held, epc, ecur, chan, senders, pushed, executed, produced, errors>>

\* a listener whose thread returns when text_io.listen fails
ListenerListenReturnsOnError(i) ==
    /\ lpc[i] = "listen"
    /\ \E ok \in BOOLEAN :
         IF ok
         THEN /\ produced < MaxCommands
              /\ produced' = produced + 1
              /\ held' = [held EXCEPT ![i] = produced + 1]
              /\ lpc' = [lpc EXCEPT ![i] = "send"]
              /\ errors' = errors
         ELSE /\ errors.listen < MaxErrors
              /\ errors' = [errors EXCEPT !.listen = @ + 1]
              /\ lpc' = [lpc EXCEPT ![i] = "returned"]
              /\ UNCHANGED <<produced, held>>
    /\ UNCHANGED <<overflow_checks, codecVars, mainVars, spawned, unsent, io_execution, dpc,
                   epc, ecur, chan, senders, pushed, executed>>

\* main.rs 54-56, 63-65: text_io.listen(&th) yields a command or fails
ListenerListen(i) ==
    /\ lpc[i] = "listen"
    /\ \E ok \in BOOLEAN :
         IF ok
         THEN /\ produced < MaxCommands
              /\ produced' = produced + 1
              /\ held' = [held EXCEPT ![i] = produced + 1]
              /\ lpc' = [lpc EXCEPT ![i] = "send"]
              /\ errors' = errors
         ELSE /\ errors.listen < MaxErrors
              /\ errors' = [errors EXCEPT !.listen = @ + 1]
              /\ UNCHANGED <<produced, held, lpc>>
    /\ UNCHANGED <<overflow_checks, codecVars, mainVars, spawned, unsent, io_execution, dpc,
                   epc, ecur, chan, senders, pushed, executed>>

\* the Receiver lives in `channel`, which listen_to_commands and then the executor's
\* closure own: it is dropped when the executor thread unwinds
ReceiverAlive == epc # "panicked"

\* main.rs 57-62: send_clone_channel.send(command) hands the command to the queue,
\* or fails when the Receiver is gone: the command is dropped with the SendError,
\* the message is posted and the loop goes on
ListenerSend(i) ==
    /\ lpc[i] = "send"
    /\ IF ReceiverAlive
       THEN /\ chan' = Append(chan, held[i])
            /\ pushed' = Append(pushed, held[i])
            /\ UNCHANGED <<unsent, errors>>
       ELSE /\ unsent' = Append(unsent, held[i])
            /\ errors' = [errors EXCEPT !.send = IF @ < MaxErrors THEN @ + 1 ELSE @]
            /\ UNCHANGED <<chan, pushed>>
    /\ held' = [held EXCEPT ![i] = 0]
    /\ lpc' = [lpc EXCEPT ![i] = "listen"]
    /\ UNCHANGED <<overflow_checks, codecVars, mainVars, spawned, io_execution, dpc, epc,
                   ecur, senders, produced, executed>>

\* an executor that takes the newest command of the queue
ExecutorRecvNewest ==
    /\ epc = "recv"
    /\ chan # <<>>
    /\ ecur' = chan[Len(chan)]
    /\ chan' = SubSeq(chan, 1, Len(chan) - 1)
    /\ epc' = "execute"
    /\ UNCHANGED <<overflow_checks, codecVars, mainVars, spawned, unsent, io_execution, dpc,
                   lpc, held, senders, pushed, executed, produced, errors>>

\* an executor whose recv fails at once on an empty queue instead of blocking
ExecutorRecvNonBlocking ==
    /\ epc = "recv"
    /\ IF chan # <<>>
       THEN /\ ecur' = Head(chan)
            /\ chan' = Tail(chan)
            /\ epc' = "execute"
       ELSE /\ epc' = "recv_failed"
            /\ UNCHANGED <<ecur, chan>>
    /\ UNCHANGED <<overflow_checks, codecVars, mainVars, spawned, unsent, io_execution, dpc,
                   lpc, held, senders, pushed, executed, produced, errors>>

\* main.rs 76-78: channel.1.recv() takes the oldest command, blocks on an empty
\* queue while a Sender lives, and fails on an empty queue with no Sender
ExecutorRecv ==
    /\ epc = "recv"
    /\ IF chan # <<>>
       THEN /\ ecur' = Head(chan)
            /\ chan' = Tail(chan)
            /\ epc' = "execute"
       ELSE /\ senders = 0
            /\ epc' = "recv_failed"
            /\ UNCHANGED <<ecur, chan>>
    /\ UNCHANGED <<overflow_checks, codecVars, mainVars, spawned, unsent, io_execution, dpc,
                   lpc, held, senders, pushed, executed, produced, errors>>

\* main.rs 81-83: the Err arm posts its message; the loop has no break, so recv is
\* next.  Enabled only behind a failed recv, which needs every Sender gone.
ExecutorPostRecvError ==
    /\ epc = "recv_failed"
    /\ errors' = [errors EXCEPT !.recv = IF @ < MaxErrors THEN @ + 1 ELSE @]
    /\ epc' = "recv"
    /\ UNCHANGED <<overflow_checks, codecVars, mainVars, spawned, unsent, io_execution, dpc,
                   lpc, held, ecur, chan, senders, pushed, executed, produced>>

\* main.rs 79: exec.execute(&thr)
ExecutorExecute ==
    /\ epc = "execute"
    /\ executed' = Append(executed, ecur)
    /\ ecur' = 0
    /\ epc' = "recv"
    /\ UNCHANGED <<overflow_checks, codecVars, mainVars, spawned, unsent, io_execution, dpc,
                   lpc, held, chan, senders, pushed, produced, errors>>

\* The steps that can happen as the code stands: with a Sender alive in the
\* executor's closure no recv fails (ExecutorPostRecvError), and with the executor
\* in its loop the last join never returns (ListenToCommandsJoinExecutor).
NextDispatch ==
    \/ ListenToCommandsSpawnListeners
    \/ ListenToCommandsSpawnExecutor
    \/ ListenToCommandsJoinListeners
    \/ \E i \in 1..Len(io_execution) : ListenerListen(i)
    \/ \E i \in 1..Len(io_execution) : ListenerSend(i)
    \/ ExecutorRecv
    \/ ExecutorExecute

InitDispatchSpec ==
    /\ overflow_checks \in BOOLEAN
    /\ IdleCodec
    /\ IdleMain
    /\ InitDispatch

SpecDispatch == InitDispatchSpec /\ [][NextDispatch]_vars

(***************************************************************************)
(* The runtime with a channel that closes.  No statement of main.rs drops  *)
(* the Sender that the executor's own closure holds, so in SpecDispatch    *)
(* recv never fails.  ChannelCloses is the event "every sender has been    *)
(* dropped" taken as given: the listener threads have returned and no     *)
(* Sender is left.                                                         *)
(***************************************************************************)
ChannelCloses ==
    /\ epc # "none"
    /\ senders > 0
    /\ senders' = 0
    /\ lpc' = [i \in 1..Len(io_execution) |-> IF lpc[i] = "none" THEN "none" ELSE "returned"]
    /\ UNCHANGED <<overflow_checks, codecVars, mainVars, spawned, unsent, io_execution, dpc,
                   held, epc, ecur, chan, pushed, executed, produced, errors>>

NextClosing == NextDispatch \/ ChannelCloses \/ ExecutorPostRecvError

SpecClosing == InitDispatchSpec /\ [][NextClosing]_vars

(***************************************************************************)
(* The runtime with a channel that closes at the receiving end.  The       *)
(* Receiver is dropped only when the executor thread ends, and its loop    *)
(* ends only by unwinding out of exec.execute, whose code is opaque here.  *)
(* ExecutorUnwinds is that event taken as given: the thread's closure is   *)
(* dropped, and with it `channel`: the Receiver, the queued commands and   *)
(* the Sender channel.0 if it still lives.                                 *)
(***************************************************************************)
ExecutorUnwinds ==
    /\ epc = "execute"
    /\ epc' = "panicked"
    /\ ecur' = 0
    /\ chan' = <<>>
    /\ senders' = IF senders > 0 THEN senders - 1 ELSE 0
    /\ UNCHANGED <<overflow_checks, codecVars, mainVars, spawned, unsent, io_execution, dpc,
                   lpc, held, pushed, executed, produced, errors>>

NextUnwinding == NextDispatch \/ ExecutorUnwinds

SpecUnwinding == InitDispatchSpec /\ [][NextUnwinding]_vars

(***************************************************************************)
(* The runtime with a channel that closes at either end, under fair        *)
(* scheduling.  ListenToCommandsJoinExecutor is line 97: it needs the      *)
(* executor thread to have ended, and line 88-96 before it needs every     *)
(* listener thread to have ended.                                          *)
(***************************************************************************)
\* main.rs 97-98: loop_result.join(), then listen_to_commands returns
ListenToCommandsJoinExecutor ==
    /\ dpc = "join_executor"
    /\ epc \in {"returned", "panicked"}
    /\ dpc' = "returned"
    /\ UNCHANGED <<overflow_checks, codecVars, mainVars, spawned, unsent, io_execution, lpc,
                   held, epc, ecur, chan, senders, pushed, executed, produced, errors>>

NextShutdown ==
    \/ NextDispatch
    \/ ChannelCloses
    \/ ExecutorPostRecvError
    \/ ExecutorUnwinds
    \/ ListenToCommandsJoinExecutor

\* Every thread is an OS thread and is scheduled: a step of the code that stays
\* possible is taken.  No fairness on text_io.listen, which may block for ever, nor
\* on the closing of the channel, which need not happen.
FairThreads ==
    /\ WF_vars(ListenToCommandsSpawnListeners)
    /\ WF_vars(ListenToCommandsSpawnExecutor)
    /\ WF_vars(ListenToCommandsJoinListeners)
    /\ WF_vars(ListenToCommandsJoinExecutor)
    /\ \A i \in 1..MaxSources : WF_vars(i <= Len(io_execution) /\ ListenerSend(i))
    /\ WF_vars(ExecutorRecv)
    /\ WF_vars(ExecutorPostRecvError)
    /\ WF_vars(ExecutorExecute)

SpecShutdown == InitDispatchSpec /\ [][NextShutdown]_vars /\ FairThreads

(***************************************************************************)
(* Properties.                                                             *)
(***************************************************************************)
\* what get_device_from_bytes makes of the buffer of one recv_from
Decode(o) == get_device_from_bytes(FillBuffer(o.data), overflow_checks)

Decoded(i) == recvLog[i].ok /\ Decode(recvLog[i]).tag = "Ok"

\* the number of leading receives that succeeded and decoded to a Device
LeadingDecoded == Cardinality({ i \in 1..Len(recvLog) : \A j \in 1..i : Decoded(j) })

\* set_up_devices has returned to main, or the main thread has panicked
DiscoveryOver == mpc \in {"returned", "listen_to_commands", "exit", "panicked"}

\* C1: after a successful connect and send, a failing first receive makes discovery
\* return Err(could_not_recieve_device_packet), and a first buffer that does not
\* decode to a Device makes it return Err(could_not_unserialize_device_packet).
C1_FirstReceiveErrors ==
    (DiscoveryOver /\ Len(recvLog) >= 1) =>
        /\ ~recvLog[1].ok => result = Err("could_not_recieve_device_packet")
        /\ (recvLog[1].ok /\ Decode(recvLog[1]).tag # "Ok")
              => result = Err("could_not_unserialize_device_packet")

\* C2: when the first k >= 1 receives decode to devices d1..dk and receive k+1 fails
\* or does not decode, discovery returns Ok(<<d1, .., dk>>).
C2_LaterFailureSwallowed ==
    (DiscoveryOver /\ LeadingDecoded >= 1 /\ Len(recvLog) = LeadingDecoded + 1) =>
        result = Ok([i \in 1..LeadingDecoded |-> Decode(recvLog[i]).val])

IsPrefix(s, t) == Len(s) <= Len(t) /\ SubSeq(t, 1, Len(s)) = s

\* C3: the commands executed so far are a prefix of the commands pushed, in push
\* order, and every pushed command is executed, being executed or still queued:
\* none is dropped, duplicated or reordered.
C3_ExecutedPrefixOfPushed ==
    /\ IsPrefix(executed, pushed)
    /\ pushed = executed \o (IF epc = "execute" THEN <<ecur>> ELSE <<>>) \o chan

C3_Witness ==
    /\ Cardinality(Listeners) = 1
    /\ pushed = <<1, 2, 3>>
    /\ executed = <<1, 2, 3>>

\* C4: get_device_from_bytes answers empty_buffer for the empty buffer and
\* protocol_error for every buffer whose first byte is not 165, whatever follows.
C4_HeaderErrorsFirst ==
    dres # NoCall =>
        /\ Len(buffer) = 0 => dres = Err("empty_buffer")
        /\ (Len(buffer) > 0 /\ At(buffer, 0) # 165) => dres = Err("protocol_error")

C4_Witness ==
    /\ dres = Err("protocol_error")
    /\ Len(buffer) > 4
    /\ At(buffer, 1) >= 254

\* the declared span buffer[0 .. buffer[1]+2] lies in the buffer and its last 4
\* bytes are the big-endian CRC-32 of the bytes before them
DeclaredSpanValid(b) ==
    /\ Len(b) >= 2
    /\ At(b, 1) + 2 >= 4
    /\ At(b, 1) + 2 <= Len(b)
    /\ LET n == At(b, 1) + 2
       IN  SubSeq(b, n - 3, n) = BE32(get_checksum(SubSeq(b, 1, n - 4)))

\* C5: validate_checksum answers Ok(()) for every buffer whose declared span carries
\* the CRC-32 of its first bytes, with or without bytes appended after the span.
C5_ValidSpanAccepted ==
    (vres # "none" /\ DeclaredSpanValid(buffer)) => vres = "Ok"

\* the Rust offsets the checksum covers: header, length byte and payload
CoveredOffsets(f) == 0..(At(f, 1) + 2 - 5)

FlippedValidFrame ==
    /\ edit.kind = "flip"
    /\ vres # "none"
    /\ validate_checksum(origin, overflow_checks) = "Ok"
    /\ edit.offset \in CoveredOffsets(origin)

\* C6 as stated: a single-bit mutation of any covered byte of a valid frame, the
\* length byte included, makes validate_checksum answer mismatch.
C6_AnyCoveredBitFlipMismatch ==
    FlippedValidFrame => vres = "mismatch"

\* C6: a single-bit mutation of the header byte or of a payload byte of a frame that
\* validate_checksum accepts makes validate_checksum answer mismatch.
C6_HeaderOrPayloadBitFlipMismatch ==
    (FlippedValidFrame /\ edit.offset # 1) => vres = "mismatch"

C6_Witness ==
    /\ FlippedValidFrame
    /\ origin = TestFrame
    /\ edit.offset = 2
    /\ vres = "mismatch"

\* the devices accumulated so far: in the returned vector, or in the active calls
\* and the vector on its way up
AccumulatedCount ==
    IF result.tag = "Ok" THEN Len(result.val)
    ELSE Cardinality({ j \in 1..Len(stack) : stack[j] # <<>> })
         + (IF ret.tag = "Ok" THEN Len(ret.val) ELSE 0)

\* the datagram of one recv_from holds its whole declared span, checksum included
DatagramHoldsValidFrame(o) ==
    /\ o.ok
    /\ o.n >= 2
    /\ At(o.data, 1) + 2 <= o.n
    /\ DeclaredSpanValid(o.data)

\* C7: the i-th accumulated device comes from the i-th datagram, whose declared
\* length fits the bytes received and whose span ends in the CRC-32 of its start.
C7_DevicesFromWholeFrames ==
    \A i \in 1..AccumulatedCount : DatagramHoldsValidFrame(recvLog[i])

\* C8: validate_checksum and get_device_from_bytes return a value for every
\* buffer; none makes them panic.
C8_NoBufferPanics ==
    vres # "panic" /\ dres.tag # "Panic"

\* C9: set_up_devices is called once; once it has returned, Ok or Err, the next
\* step of main calls listen_to_commands, once; an Err is logged before that.
C9_DiscoveryThenRuntimeOnce ==
    /\ calls.set_up_devices = (IF mpc = "main" THEN 0 ELSE 1)
    /\ calls.listen_to_commands = (IF mpc = "listen_to_commands" THEN 1 ELSE 0)
    /\ mpc = "listen_to_commands" => result.tag \in {"Ok", "Err"}
    /\ result # NoCall =>
          \/ mpc = "returned" /\ ENABLED MainMatch
          \/ mpc = "listen_to_commands"
    /\ (mpc = "listen_to_commands" /\ result.tag = "Err")
          => messages[Len(messages)] = "Error:JARVIS COULD NOT START"

C9_Witness ==
    /\ mpc = "listen_to_commands"
    /\ result = Err("could_not_unserialize_device_packet")
    /\ calls = [set_up_devices |-> 1, listen_to_commands |-> 1]

\* C10: once a recv of the executor has failed, the executor's loop has ended and
\* its thread has returned.
C10_RecvFailureEndsExecutor ==
    errors.recv > 0 => epc = "returned"

\* C11: the discovery command is <<165, 9, 0, 0, hour, minute, second, t0, t1, t2, t3>>
\* where t0, t1, t2 are the three high bytes of the CRC-32 of the 7 bytes before them
\* in that frame, and t3 is 255.
C11_CommandCarriesOwnChecksum ==
    set_up_command # <<>> =>
        /\ Len(set_up_command) = 11
        /\ SubSeq(set_up_command, 1, 7) =
              <<165, 9, 0, 0, current_time.tm_hour, current_time.tm_min,
                current_time.tm_sec>>
        /\ SubSeq(set_up_command, 8, 10) =
              SubSeq(BE32(get_checksum(SubSeq(set_up_command, 1, 7))), 1, 3)
        /\ set_up_command[11] = 255

\* the positions of sockLog at which the socket operation op was attempted
OpsOf(op) == { i \in 1..Len(sockLog) : sockLog[i].op = op }

\* C12: connect and send are attempted at most once each; a failed connect gives
\* Err(could_not_send_setup_command) with no send and no receive; a failed send
\* gives Err(could_not_setup_devices) with no receive; every receive comes after a
\* successful send, and the send after a successful connect.
C12_ConnectSendOnceThenReceive ==
    /\ Cardinality(OpsOf("connect")) <= 1
    /\ Cardinality(OpsOf("send")) <= 1
    /\ \A i \in OpsOf("connect") :
          ~sockLog[i].ok =>
              /\ result = Err("could_not_send_setup_command")
              /\ OpsOf("send") = {}
              /\ OpsOf("recv_from") = {}
    /\ \A i \in OpsOf("send") :
          /\ \E j \in 1..(i - 1) : sockLog[j] = SockOp("connect", TRUE)
          /\ ~sockLog[i].ok =>
                /\ result = Err("could_not_setup_devices")
                /\ OpsOf("recv_from") = {}
    /\ \A i \in OpsOf("recv_from") :
          \E j \in 1..(i - 1) : sockLog[j] = SockOp("send", TRUE)

C12_Witness ==
    /\ mpc = "listen_to_commands"
    /\ sockLog = <<SockOp("connect", TRUE), SockOp("send", FALSE)>>
    /\ result = Err("could_not_setup_devices")

\* C13: every Ok of get_device_from_bytes carries the Device whose device_id is the
\* byte at offset 2 of the buffer and whose status is on.
C13_DeviceIdIsThirdByte ==
    dres.tag = "Ok" => dres.val = [device_id |-> At(buffer, 2), status |-> "on"]

C13_Witness ==
    /\ buffer = TestFrame
    /\ dres = Ok([device_id |-> 15, status |-> "on"])

\* how many threads of one role listen_to_commands has spawned
SpawnedCount(role) == Cardinality({ k \in 1..Len(spawned) : spawned[k] = role })

\* C14: past the spawning of lines 49-71 a source has a listener thread exactly when
\* it is marked async, so the listener threads number the async entries; exactly one
\* executor thread is spawned, after the listeners, whatever the source list.
C14_OneListenerPerAsyncSource ==
    /\ dpc = "entry" => spawned = <<>> /\ Listeners = {}
    /\ dpc # "entry" =>
          /\ \A i \in 1..Len(io_execution) : lpc[i] # "none" <=> io_execution[i] = "async"
          /\ Cardinality(Listeners) = Cardinality(AsyncSources)
          /\ SpawnedCount("listener") = Cardinality(AsyncSources)
    /\ SpawnedCount("executor") = (IF dpc \in {"entry", "spawn_executor"} THEN 0 ELSE 1)
    /\ epc # "none" <=> SpawnedCount("executor") = 1

C14_Witness ==
    /\ io_execution = <<"async", "sync">>
    /\ spawned = <<"listener", "executor">>
    /\ lpc[1] # "none"
    /\ lpc[2] = "none"

\* how often command c occurs in the sequence q
Occurrences(q, c) == Cardinality({ k \in 1..Len(q) : q[k] = c })

\* C15: a listener thread stays in its loop: no step of it ends the thread.  A
\* failed read posts its message, hands nothing to the channel and the listener
\* reads again; a failed send posts its message and the listener reads again.
\* Every command read is handed to send exactly once: it is held by the listener
\* that read it, or it was sent once, to the queue or, with the Receiver gone, in
\* vain.
C15_ListenerLoopsAndSendsOnce ==
    /\ [](/\ \A i \in 1..Len(io_execution) :
               /\ lpc[i] # "returned"
               /\ (dpc # "entry" /\ io_execution[i] = "async") => lpc[i] \in {"listen", "send"}
          /\ \A c \in 1..produced :
               Occurrences(held, c) + Occurrences(pushed, c) + Occurrences(unsent, c) = 1
          /\ ReceiverAlive => unsent = <<>>
          /\ unsent # <<>> => errors.send > 0)
    /\ [][/\ errors'.listen > errors.listen =>
               /\ lpc' = lpc
               /\ UNCHANGED <<chan, pushed, unsent, held, produced>>
           /\ \A i \in 1..Len(io_execution) :
               (lpc[i] = "send" /\ lpc'[i] # "send") =>
                   /\ lpc'[i] = "listen"
                   /\ \/ pushed' = Append(pushed, held[i]) /\ chan' = Append(chan, held[i])
                            /\ unsent' = unsent /\ errors' = errors
                      \/ unsent' = Append(unsent, held[i]) /\ pushed' = pushed
                            /\ chan' = chan /\ errors'.send > 0]_vars

C15_Witness ==
    /\ errors.listen > 0
    /\ errors.send > 0
    /\ pushed = <<1>>
    /\ unsent = <<2>>
    /\ \E i \in Listeners : lpc[i] = "listen"

\* listen_to_commands has returned to main
ListenToCommandsReturned == dpc = "returned"

\* the channel is closed for good: no Sender is left, or the Receiver is gone
ChannelClosed == epc # "none" /\ (senders = 0 \/ ~ReceiverAlive)

\* C16: listen_to_commands returns only when every listener thread and the executor
\* thread have ended, and once the channel is closed every thread ends and
\* listen_to_commands returns.
C16_ReturnsOnceChannelClosed ==
    /\ [](ListenToCommandsReturned =>
            /\ epc \in {"returned", "panicked"}
            /\ \A i \in Listeners : lpc[i] = "returned")
    /\ ChannelClosed ~> ListenToCommandsReturned

\* C17: no Ok that retrieve_devices or set_up_devices returns is empty.
C17_OkIsNeverEmpty ==
    /\ result.tag = "Ok" => Len(result.val) >= 1
    /\ ret.tag = "Ok" => Len(ret.val) >= 1

C17_Witness ==
    /\ mpc = "listen_to_commands"
    /\ result.tag = "Ok"
    /\ Len(result.val) = 1
    /\ ~recvLog[2].ok

\* C18: get_device_from_bytes never answers possible_corrupted_data, and it answers
\* mismatch_checksum for every buffer of 1 to 4 bytes whose first byte is 165.
C18_NeverPossibleCorruptedData ==
    /\ dres # Err("possible_corrupted_data")
    /\ (dres # NoCall /\ Len(buffer) \in 1..4 /\ At(buffer, 0) = 165)
          => dres = Err("mismatch_checksum")

C18_Witness ==
    /\ buffer = <<165, 9, 15, 23>>
    /\ edit.kind = "pad"
    /\ dres = Err("mismatch_checksum")

\* the devices that set_up_devices returned: those of an Ok, none with an Err
ReturnedDevices == IF result.tag = "Ok" THEN Len(result.val) ELSE 0

\* retrieve_devices has returned to set_up_devices, and that to main
RetrieveReturned == mpc \in {"returned", "listen_to_commands"} /\ recvLog # <<>>

\* C19: the receive that fails, or whose buffer does not decode to a Device, is the
\* last one: with it the calls of retrieve_devices start to return, and when the
\* outermost has returned there were as many receives as returned devices plus
\* one, all but the last decoded; while every receive has decoded, no call returns.
C19_ReturnsAtFirstFailure ==
    /\ (recvLog # <<>> /\ ~Decoded(Len(recvLog)))
          => mpc \in {"return", "returned", "listen_to_commands"}
    /\ RetrieveReturned =>
          /\ Len(recvLog) = ReturnedDevices + 1
          /\ \A i \in 1..(Len(recvLog) - 1) : Decoded(i)
          /\ ~Decoded(Len(recvLog))
    /\ (recvLog # <<>> /\ \A i \in 1..Len(recvLog) : Decoded(i)) => mpc = "retrieve"

\* C20: with the source list of line 45, one TextInput marked sync, there is no
\* listener thread, the Sender channel.0 lives on, and the executor waits in its
\* first recv: nothing is pushed or executed, no recv fails, the join of the
\* executor cannot return and listen_to_commands does not return.
C20_SyncOnlyExecutorBlocksForever ==
    io_execution = <<"sync">> =>
        /\ Listeners = {}
        /\ SpawnedCount("listener") = 0
        /\ dpc # "entry" => senders >= 1
        /\ pushed = <<>> /\ chan = <<>> /\ executed = <<>>
        /\ errors.recv = 0
        /\ epc \in {"none", "recv"}
        /\ epc = "recv" => ~ENABLED ExecutorRecv
        /\ ~ENABLED ListenToCommandsJoinExecutor
        /\ ~ListenToCommandsReturned

C20_Witness ==
    /\ io_execution = <<"sync">>
    /\ spawned = <<"executor">>
    /\ dpc = "join_executor"
    /\ epc = "recv"
    /\ senders = 1

====
